---------------------------- MODULE Spec2Model ----------------------------
(*
  Model of src/index.ts (supabase-nextjs-image-api): one invocation of
  loadImageSafely, from the call to the point where the returned promise
  settles (or never does).  The asynchronous function is cut at its await
  points: every action is the synchronous run between two awaits, the catch
  block included when that run throws.

  Strings are TLC strings; Len, SubSeq and \o act on them character-wise.
  Ratios are exact fractions <<numerator, denominator>>.
*)
EXTENDS Integers, Sequences, FiniteSets, TLC

VARIABLES
  imageData,      \* SupabaseImageData: [bucket, path]
  options,        \* ImageLoaderOptions & { onError, useTransparentImageFallback }
  pc,             \* position of the async function: start, download, metadata, streaming, done
  callState,      \* the promise returned by loadImageSafely: pending, resolved, rejected
  downloadCalls,  \* number of calls of storage.from(bucket).download(path)
  buffer,         \* byte length of the downloaded buffer (-1: none yet)
  imageMeta,      \* imageMeta.width (0: not probed / undefined)
  resizeCalls,    \* widths handed to sharp's resize, in call order
  streamable,     \* operations queued on the sharp pipeline, in call order
  streamState,    \* encoded stream: idle, flowing, ended, errored
  produced,       \* number of chunks the encoded stream has emitted
  apiRes,         \* NextApiResponse: [status, headers, body, ended]
  statusLog,      \* every status code written to the response, in order
  onErrorCalls,   \* the error values handed to options.onError, in order
  failure         \* taxonomy kind of the step that failed ("none" if no step has)

vars == <<imageData, options, pc, callState, downloadCalls, buffer, imageMeta,
          resizeCalls, streamable, streamState, produced, apiRes, statusLog,
          onErrorCalls, failure>>

-----------------------------------------------------------------------------
(* Bounds of the model *)

MaxOrigBytes == 4      \* largest byte length of a stored object
MaxOrigWidth == 4      \* largest pixel width of a stored image
MaxBudgetBytes == 2    \* largest options.maxSizeBytes
MaxBudgetWidth == 2    \* largest options.maxSizeWidth
MaxChunks == 2         \* largest number of chunks of an encoded stream

-----------------------------------------------------------------------------
(* String primitives of the JavaScript runtime *)

UpperCaseLetters == "ABCDEFGHIJKLMNOPQRSTUVWXYZ"
LowerCaseLetters == "abcdefghijklmnopqrstuvwxyz"

CharAt(s, i) == SubSeq(s, i, i)

UpperCaseSet == {CharAt(UpperCaseLetters, i) : i \in 1..26}

LowerCaseOf ==
  [c \in UpperCaseSet |->
     CharAt(LowerCaseLetters, CHOOSE i \in 1..26 : CharAt(UpperCaseLetters, i) = c)]

LowerChar(c) == IF c \in UpperCaseSet THEN LowerCaseOf[c] ELSE c

RECURSIVE toLowerCase(_)
toLowerCase(s) ==
  IF Len(s) = 0 THEN ""
  ELSE LowerChar(CharAt(s, 1)) \o toLowerCase(SubSeq(s, 2, Len(s)))

endsWith(s, suffix) ==
  /\ Len(s) >= Len(suffix)
  /\ SubSeq(s, Len(s) - Len(suffix) + 1, Len(s)) = suffix

includes(s, sub) ==
  \E i \in 1..(Len(s) - Len(sub) + 1) : SubSeq(s, i, i + Len(sub) - 1) = sub

\* JSON string escaping of the two characters that need it in the inputs
JsonEscapeChar(c) ==
  IF c = "\"" THEN "\\\"" ELSE IF c = "\\" THEN "\\\\" ELSE c

RECURSIVE JsonQuoteBody(_)
JsonQuoteBody(s) ==
  IF Len(s) = 0 THEN ""
  ELSE JsonEscapeChar(CharAt(s, 1)) \o JsonQuoteBody(SubSeq(s, 2, Len(s)))

JsonString(s) == "\"" \o JsonQuoteBody(s) \o "\""

\* e + "" for an Error object with the given message
ErrorToString(message) == "Error: " \o message

\* "" + v for an optional number: <<>> is undefined, <<n>> the number n
NumberToString(v) == IF v = <<>> THEN "undefined" ELSE ToString(v[1])

-----------------------------------------------------------------------------
(* Module-level constants of index.ts *)

TRANSPARENT_IMAGE_GIF_BASE64 ==
  "R0lGODlhAQABAIAAAAAAAAAAACH5BAEAAAAALAAAAAABAAEAAAICRAEAOw="

RECURSIVE StripPadding(_)
StripPadding(s) ==
  IF Len(s) > 0 /\ CharAt(s, Len(s)) = "=" THEN StripPadding(SubSeq(s, 1, Len(s) - 1))
  ELSE s

\* Buffer.from(text, "base64").byteLength: six bits per character, whole bytes only
Base64ByteLength(text) == (Len(StripPadding(text)) * 6) \div 8

\* the fallback asset: its content (kept in its base64 spelling) and byte length
TRANSPARENT_IMAGE_GIF_BYTES ==
  [content |-> TRANSPARENT_IMAGE_GIF_BASE64,
   byteLength |-> Base64ByteLength(TRANSPARENT_IMAGE_GIF_BASE64)]

STANDARD_CACHE_TIME == 60 * 60 * 24 * 5

-----------------------------------------------------------------------------
(* deriveImageTypeFromPath *)

\* deriveImageTypeFromPath with one more accepted suffix
deriveImageTypeFromPath_AcceptsBmp(path) ==
  LET lPath == toLowerCase(path) IN
  IF endsWith(lPath, ".jpeg") \/ endsWith(lPath, ".jpg") THEN "jpg"
  ELSE IF endsWith(lPath, ".gif") THEN "gif"
  ELSE IF endsWith(lPath, ".png") THEN "png"
  ELSE IF endsWith(lPath, ".heic") THEN "heic"
  ELSE IF endsWith(lPath, ".tiff") THEN "tiff"
  ELSE IF endsWith(lPath, ".webp") THEN "webp"
  ELSE IF endsWith(lPath, ".bmp") THEN "bmp"
  ELSE "unknown"

deriveImageTypeFromPath(path) ==
  LET lPath == toLowerCase(path) IN
  IF endsWith(lPath, ".jpeg") \/ endsWith(lPath, ".jpg") THEN "jpg"
  ELSE IF endsWith(lPath, ".gif") THEN "gif"
  ELSE IF endsWith(lPath, ".png") THEN "png"
  ELSE IF endsWith(lPath, ".heic") THEN "heic"
  ELSE IF endsWith(lPath, ".tiff") THEN "tiff"
  ELSE IF endsWith(lPath, ".webp") THEN "webp"
  ELSE "unknown"

-----------------------------------------------------------------------------
(* Inputs of one invocation *)

Buckets == {"", "imgs", "Image not found"}

Paths == {"", "a.jpg", "b.JPEG", "c.gif", "photo.PNG", "d.heic", "e.tiff",
          "f.webp", "doc.bmp", "noext", "Image not found.bmp"}

\* behaviours of the caller's onError: not supplied, returns, throws
OnErrorKinds == {"absent", "returns", "throws"}

\* messages of errors raised inside sharp (metadata, resize, the encoded stream)
SharpInputError == "Input buffer contains unsupported image format"
SharpEmptyError == "Input Buffer is empty"
SharpResizeError(w) ==
  "Expected positive integer for width but received " \o ToString(w) \o " of type number"
SharpStreamError == "VipsJpeg: Premature end of input file"

ImageLoaderOptions ==
  [maxSizeBytes : 1..MaxBudgetBytes,
   maxSizeWidth : 1..MaxBudgetWidth,
   quality : {60},
   progressive : {TRUE},
   standardCacheTime : {<<>>, <<STANDARD_CACHE_TIME>>},
   sharpen : BOOLEAN,
   onError : OnErrorKinds,
   useTransparentImageFallback : BOOLEAN]

SupabaseImageData == [bucket : Buckets, path : Paths]

NoResponse == [status |-> 0, headers |-> <<>>, body |-> <<>>, ended |-> FALSE]

Init ==
  /\ imageData \in SupabaseImageData
  /\ options \in ImageLoaderOptions
  /\ pc = "start"
  /\ callState = "pending"
  /\ downloadCalls = 0
  /\ buffer = -1
  /\ imageMeta = 0
  /\ resizeCalls = <<>>
  /\ streamable = <<>>
  /\ streamState = "idle"
  /\ produced = 0
  /\ apiRes = NoResponse
  /\ statusLog = <<>>
  /\ onErrorCalls = <<>>
  /\ failure = "none"

-----------------------------------------------------------------------------
(* The catch block of loadImageSafely *)

errCode(e) == IF includes(ErrorToString(e), "Image not found") THEN 404 ELSE 500

errMessage(e) ==
  IF includes(ErrorToString(e), "Image not found") THEN "Image not found"
  ELSE "Internal server error"

FallbackHeaders ==
  ("Content-Type" :> "image/gif") @@
  ("Content-Length" :> TRANSPARENT_IMAGE_GIF_BYTES.byteLength) @@
  ("Cache-control" :> "no-cache")

\* the response after the catch block has written to res
ErrorResponse(res, e) ==
  IF options.useTransparentImageFallback
  THEN [res EXCEPT !.status = errCode(e),
                   !.headers = FallbackHeaders,
                   !.body = Append(res.body, TRANSPARENT_IMAGE_GIF_BYTES.content),
                   !.ended = TRUE]
  ELSE [res EXCEPT !.status = errCode(e),
                   !.body = Append(res.body, errMessage(e)),
                   !.ended = TRUE]

\* a throw of Error(e) inside the try block, of taxonomy kind `kind`, followed
\* by the whole catch block; an onError that throws ends the function there
Catch(kind, e) ==
  /\ failure' = kind
  /\ pc' = "done"
  /\ onErrorCalls' = IF options.onError = "absent" THEN onErrorCalls
                     ELSE Append(onErrorCalls, e)
  /\ IF options.onError = "throws"
     THEN /\ callState' = "rejected"
          /\ UNCHANGED <<apiRes, statusLog>>
     ELSE /\ callState' = "resolved"
          /\ apiRes' = ErrorResponse(apiRes, e)
          /\ statusLog' = Append(statusLog, errCode(e))

-----------------------------------------------------------------------------
(* loadImageSafely up to the download call *)

InvalidImageData(data) == data.bucket = "" \/ data.path = ""

errInfo(bucket, path) ==
  "{\"bucket\":" \o JsonString(bucket) \o ",\"path\":" \o JsonString(path) \o "}"

Start ==
  /\ pc = "start"
  /\ IF InvalidImageData(imageData)
     THEN /\ Catch("InvalidRequest", "Invalid image data")
          /\ UNCHANGED downloadCalls
     ELSE IF deriveImageTypeFromPath(imageData.path) = "unknown"
     THEN /\ Catch("UnsupportedType", "Unknown image type: " \o imageData.path)
          /\ UNCHANGED downloadCalls
     ELSE /\ pc' = "download"
          /\ downloadCalls' = downloadCalls + 1
          /\ UNCHANGED <<callState, apiRes, statusLog, onErrorCalls, failure>>
  /\ UNCHANGED <<imageData, options, buffer, imageMeta, resizeCalls, streamable,
                 streamState, produced>>

(* loadImageFromSupabase after the download has answered *)

\* error: the storage backend reported an error; blob: byte length of the
\* returned data, or -1 when no data came back
DownloadReturns(error, blob) ==
  /\ pc = "download"
  /\ IF error
     THEN /\ Catch("NotFound",
                   "Image not found > " \o errInfo(imageData.bucket, imageData.path))
          /\ UNCHANGED buffer
     ELSE IF blob = -1
     THEN /\ Catch("EmptyPayload",
                   "Blob was not retrieved > " \o errInfo(imageData.bucket, imageData.path))
          /\ UNCHANGED buffer
     ELSE /\ buffer' = blob
          /\ pc' = "metadata"
          /\ UNCHANGED <<callState, apiRes, statusLog, onErrorCalls, failure>>
  /\ UNCHANGED <<imageData, options, downloadCalls, imageMeta, resizeCalls,
                 streamable, streamState, produced>>

-----------------------------------------------------------------------------
(* getStreamableImage after the image has been probed *)

\* exact fractions <<numerator, denominator>>, denominator > 0
Ratio(n, d) == <<n, d>>

\* Math.min on two fractions
MathMin(a, b) == IF a[1] * b[2] <= b[1] * a[2] THEN a ELSE b

\* Math.round(n * r) for an integer n >= 0 and a fraction r >= 0: halves round up
MathRound(n, r) == (2 * n * r[1] + r[2]) \div (2 * r[2])

NeedsResize(byteLength, width, opts) ==
  byteLength > opts.maxSizeBytes \/ width > opts.maxSizeWidth

\* factor without the width ratio
factor_BytesOnly(byteLength, width, opts) ==
  MathMin(Ratio(1, 1), Ratio(opts.maxSizeBytes, byteLength))

factor(byteLength, width, opts) ==
  LET downscaleFactorBytesEstimated ==
        MathMin(Ratio(1, 1), Ratio(opts.maxSizeBytes, byteLength))
      downScaleFactorWidthEstimated ==
        MathMin(Ratio(1, 1), Ratio(opts.maxSizeWidth, width))
  IN  MathMin(downScaleFactorWidthEstimated, downscaleFactorBytesEstimated)

\* the argument of resize()
TargetWidth(byteLength, width, opts) ==
  MathRound(width, factor(byteLength, width, opts))

\* sharp's resize() accepts positive integer widths only
ResizeAccepts(w) == w > 0

\* the operations getStreamableImage queues on the sharp instance
Pipeline(byteLength, width, opts) ==
  (IF NeedsResize(byteLength, width, opts)
   THEN <<"rotate", "resize">> ELSE <<>>)
  \o (IF opts.sharpen THEN <<"sharpen">> ELSE <<>>)
  \o <<"jpeg">>

SuccessHeaders(opts) ==
  ("Content-Type" :> "image/jpg") @@
  ("Cache-control" :> ("max-age=" \o NumberToString(opts.standardCacheTime)))

\* readable: metadata() resolved; width: imageMeta.width, 0 when it is missing
MetadataReturns(readable, width) ==
  /\ pc = "metadata"
  /\ IF buffer = 0
     THEN /\ Catch("UnreadableImage", SharpEmptyError)
          /\ UNCHANGED <<imageMeta, resizeCalls, streamable, streamState>>
     ELSE IF ~readable
     THEN /\ Catch("UnreadableImage", SharpInputError)
          /\ UNCHANGED <<imageMeta, resizeCalls, streamable, streamState>>
     ELSE IF width = 0
     THEN /\ Catch("UnreadableImage", "Not possible to retrieve image width")
          /\ UNCHANGED <<imageMeta, resizeCalls, streamable, streamState>>
     ELSE /\ imageMeta' = width
          /\ resizeCalls' = IF NeedsResize(buffer, width, options)
                            THEN Append(resizeCalls, TargetWidth(buffer, width, options))
                            ELSE resizeCalls
          /\ IF /\ NeedsResize(buffer, width, options)
                /\ ~ResizeAccepts(TargetWidth(buffer, width, options))
             THEN /\ Catch("TranscodeFailure",
                           SharpResizeError(TargetWidth(buffer, width, options)))
                  /\ UNCHANGED <<streamable, streamState>>
             ELSE /\ streamable' = Pipeline(buffer, width, options)
                  /\ apiRes' = [apiRes EXCEPT !.status = 200,
                                              !.headers = SuccessHeaders(options)]
                  /\ statusLog' = Append(statusLog, 200)
                  /\ streamState' = "flowing"
                  /\ pc' = "streaming"
                  /\ UNCHANGED <<callState, onErrorCalls, failure>>
  /\ UNCHANGED <<imageData, options, downloadCalls, buffer, produced>>

-----------------------------------------------------------------------------
(* The encoded stream piped into the response *)

\* the resolving listener attached to the first chunk instead of the end
ResolveEvent_Data == "data"

\* the stream event whose listener resolves the promise of loadImageSafely
ResolveEvent == "end"

Chunk(i) == "jpeg-chunk-" \o ToString(i)

\* pixel width of the image the pipeline encodes
EncodedWidth ==
  IF resizeCalls # <<>> THEN resizeCalls[Len(resizeCalls)] ELSE imageMeta

\* 'data': pipe writes the chunk to the response
StreamData ==
  /\ pc = "streaming"
  /\ streamState = "flowing"
  /\ produced < MaxChunks
  /\ produced' = produced + 1
  /\ apiRes' = [apiRes EXCEPT !.body = Append(apiRes.body, Chunk(produced + 1))]
  /\ IF ResolveEvent = "data"
     THEN callState' = "resolved" /\ pc' = "done"
     ELSE UNCHANGED <<callState, pc>>
  /\ UNCHANGED <<imageData, options, downloadCalls, buffer, imageMeta, resizeCalls,
                 streamable, streamState, statusLog, onErrorCalls, failure>>

\* 'end': pipe ends the response, then the listener of line 188 runs
StreamEnd ==
  /\ pc = "streaming"
  /\ streamState = "flowing"
  /\ streamState' = "ended"
  /\ apiRes' = [apiRes EXCEPT !.ended = TRUE]
  /\ IF ResolveEvent = "end"
     THEN callState' = "resolved" /\ pc' = "done"
     ELSE UNCHANGED <<callState, pc>>
  /\ UNCHANGED <<imageData, options, downloadCalls, buffer, imageMeta, resizeCalls,
                 streamable, produced, statusLog, onErrorCalls, failure>>

\* 'error': the pipeline fails while it is consumed; nothing listens for it,
\* pipe does not end the response, 'end' is never emitted
StreamError ==
  /\ pc = "streaming"
  /\ streamState = "flowing"
  /\ streamState' = "errored"
  /\ failure' = "TranscodeFailure"
  /\ UNCHANGED <<imageData, options, pc, callState, downloadCalls, buffer, imageMeta,
                 resizeCalls, streamable, produced, apiRes, statusLog, onErrorCalls>>

-----------------------------------------------------------------------------

Next ==
  \/ Start
  \/ \E error \in BOOLEAN, blob \in -1..MaxOrigBytes : DownloadReturns(error, blob)
  \/ \E readable \in BOOLEAN, width \in 0..MaxOrigWidth : MetadataReturns(readable, width)
  \/ StreamData
  \/ StreamEnd
  \/ StreamError

Spec == Init /\ [][Next]_vars

\* the invocations whose onError, when supplied, returns normally
InitCallbackReturns == Init /\ options.onError # "throws"

SpecCallbackReturns == InitCallbackReturns /\ [][Next]_vars

-----------------------------------------------------------------------------
(* Properties *)

\* some step of the request has failed
Failed == failure # "none"

\* the run cannot take another step: the function is not waiting for the
\* download or the probe, and the stream will emit no further event
Quiescent ==
  /\ pc \notin {"start", "download", "metadata"}
  /\ streamState # "flowing"

ErrorStatuses == {404, 500}

\* C1: every invocation settles without rejecting, and a run in which a step
\* failed still ends with a completed HTTP response: a run that has come to
\* rest has a resolved promise and an ended response.
C1_SettlesWithResponse ==
  Quiescent => (callState = "resolved" /\ apiRes.ended)

\* C2: a completed error response has status 404 exactly when the failure is
\* NotFound and 500 for every other kind, whatever the bucket and path are;
\* without the fallback its body is the matching text.
C2_StatusByFailureKind ==
  (Failed /\ apiRes.ended /\ apiRes.status \in ErrorStatuses) =>
    /\ apiRes.status = (IF failure = "NotFound" THEN 404 ELSE 500)
    /\ ~options.useTransparentImageFallback =>
         apiRes.body = <<IF failure = "NotFound" THEN "Image not found"
                         ELSE "Internal server error">>

\* C3: every failed request with the fallback enabled has a response with an
\* error status, the three fallback headers (Content-Length being the byte
\* length of the asset, 43) and exactly the asset as body.
C3_FallbackResponse ==
  (Failed /\ options.useTransparentImageFallback) =>
    /\ apiRes.status \in ErrorStatuses
    /\ apiRes.headers = ("Content-Type" :> "image/gif") @@ ("Content-Length" :> 43)
                        @@ ("Cache-control" :> "no-cache")
    /\ apiRes.body = <<TRANSPARENT_IMAGE_GIF_BASE64>>
    /\ apiRes.ended

\* C4: a request in which a step fails never has the success head written:
\* every status written to its response is 404 or 500.
C4_NoSuccessHeadOnFailure ==
  Failed => \A i \in DOMAIN statusLog : statusLog[i] \in ErrorStatuses

RecognisedExtensions == {".jpg", ".jpeg", ".gif", ".png", ".heic", ".tiff", ".webp"}

HasRecognisedExtension(path) ==
  \E ext \in RecognisedExtensions : endsWith(toLowerCase(path), ext)

UnrecognisedPaths == {p \in Paths : ~HasRecognisedExtension(p)}

\* C5: the download is never called for a request whose bucket is empty, whose
\* path is empty or whose path has no recognised extension.
C5_NoDownloadOnBadInput ==
  (imageData.bucket = "" \/ imageData.path = "" \/ imageData.path \in UnrecognisedPaths)
    => downloadCalls = 0

C5_Witness ==
  /\ pc = "done"
  /\ imageData.bucket = "imgs"
  /\ imageData.path = "doc.bmp"
  /\ failure = "UnsupportedType"
  /\ downloadCalls = 0

\* round(W * min(maxB / B, maxW / W)) in integer arithmetic, halves rounding up
ExpectedWidth(B, W, maxB, maxW) ==
  IF maxB * W <= maxW * B THEN (2 * W * maxB + B) \div (2 * B) ELSE maxW

C7_CacheControlDefault ==
  apiRes.status = 200 =>
    apiRes.headers["Cache-control"] =
      "max-age=" \o ToString(IF options.standardCacheTime = <<>> THEN 432000
                             ELSE options.standardCacheTime[1])

\* C8: onError is called at most once, once when a step failed and the catch
\* block ran, never on a success; the error response is written whatever the
\* callback does.
C8_OnErrorIsObservationOnly ==
  /\ Len(onErrorCalls) <= 1
  /\ ~Failed => onErrorCalls = <<>>
  /\ (Failed /\ pc = "done") =>
       /\ options.onError # "absent" => Len(onErrorCalls) = 1
       /\ apiRes.ended
       /\ apiRes.status \in ErrorStatuses

\* C9: on the success path the promise resolves only after the stream has
\* ended, every chunk it produced is in the response body and the response
\* has been ended.
C9_ResolvesAfterFlush ==
  (callState = "resolved" /\ ~Failed) =>
    /\ streamState = "ended"
    /\ apiRes.ended
    /\ apiRes.body = [i \in 1..produced |-> Chunk(i)]

C9_Witness ==
  /\ callState = "resolved"
  /\ ~Failed
  /\ produced = MaxChunks
  /\ apiRes.status = 200

\* C10: every width handed to resize is a positive integer.
C10_ResizeWidthPositive ==
  \A i \in DOMAIN resizeCalls : resizeCalls[i] >= 1

=============================================================================
